---- MODULE Spec2Model ----
(***************************************************************************)
(* Model of src/index.ts (bilbatez/fake): the execute() run that renders   *)
(* a record template totalRecords times into a write stream, together with *)
(* the helpers it calls (isValidLocale, getFileFormat, extractMustacheTags, *)
(* isValidTemplate, getValueByKey).                                        *)
(*                                                                         *)
(* Strings are sequences.  A template is a sequence of lexical tokens      *)
(* (newline, literal text, mustache tag); the path inside a tag is a       *)
(* sequence of characters, so that tag.split('.') and template.split('\n') *)
(* are computed, not assumed.                                              *)
(***************************************************************************)
EXTENDS Integers, Sequences, FiniteSets, TLC

VARIABLES
  lang,          \* execute's lang argument
  template,      \* text read from templateSrc (line 233)
  extension,     \* execute's extension argument
  totalRecords,  \* execute's totalRecords argument
  pc,            \* position inside execute
  faker,         \* allFakers[isValidLocale(lang)] (line 231)
  fmt,           \* [header, footer, separator, recordTemplate] (line 234)
  i,             \* loop counter of line 240
  opened,        \* createWriteStream has been called (line 238)
  sink,          \* the sequence of writeStream.write arguments
  ended,         \* writeStream.end has been called (line 248)
  completed,     \* the end callback has logged Message.COMPLETE (line 249)
  error,         \* the Error thrown out of execute, NoError if none
  generated,     \* number of records whose generators were all invoked
  resolved       \* number of isValidTemplate calls made

vars == <<lang, template, extension, totalRecords, pc, faker, fmt, i,
          opened, sink, ended, completed, error, generated, resolved>>

----------------------------------------------------------------------------
(* Bounds *)

\* longest template, in tokens
MaxTemplateLen == 3

\* largest totalRecords
MaxRecords == 2

\* longest tag path, in characters
MaxTagLen == 4

\* most tags in a template of the resolution specification
MaxTags == 2

----------------------------------------------------------------------------
(* Strings and tokens *)

\* characters a tag path is made of: the regex class [\w.] cut down to
\* four word characters and the dot
Chars == {"m", "f", "p", "c", "."}

\* the value of a destructured array slot that does not exist
Undefined == <<"undefined">>

NL == [k |-> "nl", v |-> <<>>, n |-> 0]

Text == [k |-> "text", v |-> <<"x">>, n |-> 0]

Tag(path) == [k |-> "tag", v |-> path, n |-> 0]

Lit(s) == [k |-> "lit", v |-> <<s>>, n |-> 0]

\* the string form of the value generated for tag path in record rec
Val(path, rec) == [k |-> "val", v |-> path, n |-> rec]

Range(s) == {s[j] : j \in 1..Len(s)}

SeqsUpTo(S, n) == UNION {[1..k -> S] : k \in 0..n}

\* String.prototype.split(d): the parts between the occurrences of d
RECURSIVE Split(_, _)
Split(s, d) ==
  IF \A j \in 1..Len(s) : s[j] # d
  THEN <<s>>
  ELSE LET j == CHOOSE j \in 1..Len(s) :
                   s[j] = d /\ \A q \in 1..(j - 1) : s[q] # d
       IN <<SubSeq(s, 1, j - 1)>> \o Split(SubSeq(s, j + 1, Len(s)), d)

RECURSIVE Flatten(_)
Flatten(ss) == IF ss = <<>> THEN <<>> ELSE Head(ss) \o Flatten(Tail(ss))

----------------------------------------------------------------------------
(* The provider object graph (allFakers of @faker-js/faker) *)

\* typeof v
TypeOf(v) ==
  CASE v \in {"faker_en", "faker_de", "mod_en", "mod_de", "proto", "null"}
         -> "object"
    [] v \in {"fn_gen_en", "fn_gen_de", "fn_refDate", "fn_ctor", "fn_toString"}
         -> "function"
    [] OTHER -> "undefined"

\* Object.entries(obj): the own enumerable properties, in order.
\* allFakers is keyed by locale strings; a Faker instance owns its modules
\* (m) and a function-valued member (f); a module owns its bound functions
\* (f) and a back reference to its Faker instance (m).
Entries(obj) ==
  CASE obj = "allFakers" -> << <<"en", "faker_en">>, <<"de", "faker_de">> >>
    [] obj = "faker_en"  -> << <<(<<"m">>), "mod_en">>, <<(<<"f">>), "fn_refDate">> >>
    [] obj = "faker_de"  -> << <<(<<"m">>), "mod_de">>, <<(<<"f">>), "fn_refDate">> >>
    [] obj = "mod_en"    -> << <<(<<"f">>), "fn_gen_en">>, <<(<<"m">>), "faker_en">> >>
    [] obj = "mod_de"    -> << <<(<<"f">>), "fn_gen_de">>, <<(<<"m">>), "faker_de">> >>
    [] OTHER             -> <<>>

\* the members obj only inherits from its prototype chain: allFakers is an
\* object literal (Object.prototype); instances inherit an object-valued
\* member (p, like __proto__) and a function-valued one (c, like constructor)
Inherited(obj) ==
  CASE obj = "allFakers" -> << <<"toString", "fn_toString">> >>
    [] obj \in {"faker_en", "faker_de", "mod_en", "mod_de", "proto",
                "fn_gen_en", "fn_gen_de", "fn_refDate", "fn_ctor", "fn_toString"}
         -> << <<(<<"p">>), "proto">>, <<(<<"c">>), "fn_ctor">> >>
    [] OTHER -> <<>>

\* Array.prototype.find(...)?.at(1) over a list of [key, value] pairs
FindValue(entries, key) ==
  IF \E j \in 1..Len(entries) : entries[j][1] = key
  THEN entries[CHOOSE j \in 1..Len(entries) :
                 entries[j][1] = key /\ \A q \in 1..(j - 1) : entries[q][1] # key][2]
  ELSE "undefined"

\* key in obj
HasProperty(obj, key) ==
  \E e \in Range(Entries(obj)) \cup Range(Inherited(obj)) : e[1] = key

\* obj[key]
GetProperty(obj, key) == FindValue(Entries(obj) \o Inherited(obj), key)

\* getValueByKey with a prototype-chain lookup (obj[key]) in place of the
\* search of Object.entries
getValueByKeyInherited(obj, key) == GetProperty(obj, key)

getValueByKey(obj, key) == FindValue(Entries(obj), key)

----------------------------------------------------------------------------
(* Errors *)

NoError == [kind |-> "none", field |-> "", key |-> <<>>]

\* err(message): the Error thrown, by the ErrorMessage entry that built it
Err(kind, field, key) == [kind |-> kind, field |-> field, key |-> key]

ResolutionKinds == {"MissingField", "InvalidModule", "InvalidFunction"}

\* isValidLocale: the error it throws, NoError when it returns lang
isValidLocale(l) ==
  IF HasProperty("allFakers", l) THEN NoError ELSE Err("InvalidLocale", "", <<>>)

----------------------------------------------------------------------------
(* Tag extraction and resolution *)

RECURSIVE Dedup(_)
Dedup(s) ==
  IF s = <<>> THEN <<>>
  ELSE LET r == Dedup(SubSeq(s, 1, Len(s) - 1))
       IN IF s[Len(s)] \in Range(r) THEN r ELSE Append(r, s[Len(s)])

IsTagToken(t) == t.k = "tag"

IsNonEmpty(p) == p # <<>>

\* extractMustacheTags: the captured paths in order of first occurrence
extractMustacheTags(t) ==
  LET matches == SelectSeq(t, IsTagToken)
      paths == [j \in 1..Len(matches) |-> matches[j].v]
  IN SelectSeq(Dedup(paths), IsNonEmpty)

\* const [mod, func] = tag.split('.')
ModOf(tag) == LET parts == Split(tag, ".") IN
  IF Len(parts) >= 1 THEN parts[1] ELSE Undefined

FuncOf(tag) == LET parts == Split(tag, ".") IN
  IF Len(parts) >= 2 THEN parts[2] ELSE Undefined

\* the callback of tags.map: the error it throws for one tag, NoError when
\* it returns [mod, [func, entry]]
ResolveTag(fk, tag) ==
  LET mod == ModOf(tag)
      func == FuncOf(tag)
  IN IF mod = Undefined THEN Err("MissingField", "faker module", <<>>)
     ELSE LET moduleRef == getValueByKey(fk, mod)
          IN IF TypeOf(moduleRef) # "object" \/ moduleRef = "null"
             THEN Err("InvalidModule", "", mod)
             ELSE IF func = Undefined
             THEN Err("MissingField", "faker function", <<>>)
             ELSE LET entry == getValueByKey(moduleRef, func)
                  IN IF TypeOf(entry) # "function"
                     THEN Err("InvalidFunction", "", func)
                     ELSE NoError

\* isValidTemplate reporting the error of the last invalid tag
isValidTemplateLastError(fk, t) ==
  LET tags == extractMustacheTags(t)
      bad == {j \in 1..Len(tags) : ResolveTag(fk, tags[j]) # NoError}
  IN IF bad = {} THEN NoError
     ELSE ResolveTag(fk, tags[CHOOSE j \in bad : \A q \in bad : q <= j])

\* isValidTemplate up to the end of tags.map: the error thrown by the first
\* tag that does not resolve, NoError when every tag resolves
isValidTemplate(fk, t) ==
  LET tags == extractMustacheTags(t)
      bad == {j \in 1..Len(tags) : ResolveTag(fk, tags[j]) # NoError}
  IN IF bad = {} THEN NoError
     ELSE ResolveTag(fk, tags[CHOOSE j \in bad : \A q \in bad : j <= q])

\* the keys of the context built by the reduce of isValidTemplate
ContextKeys(t) ==
  {<<ModOf(tag), FuncOf(tag)>> : tag \in Range(extractMustacheTags(t))}

\* Mustache.render(recordTemplate, context) for record rec: text is copied,
\* a tag naming a context value becomes that value, any other tag renders
\* as the empty string
RECURSIVE Render(_, _, _)
Render(t, ctx, rec) ==
  IF t = <<>> THEN <<>>
  ELSE LET tok == Head(t)
           out == IF tok.k # "tag" THEN <<tok>>
                  ELSE IF Len(Split(tok.v, ".")) = 2
                          /\ <<ModOf(tok.v), FuncOf(tok.v)>> \in ctx
                       THEN <<Val(tok.v, rec)>>
                       ELSE <<>>
       IN out \o Render(Tail(t), ctx, rec)

----------------------------------------------------------------------------
(* Output formats *)

\* a header that is null or undefined; getFileFormat never returns one
NullString == <<[k |-> "null", v |-> <<>>, n |-> 0]>>

IsNullish(s) == s = NullString

NoFormat ==
  [err |-> NoError, header |-> <<>>, footer |-> <<>>, separator |-> <<>>,
   recordTemplate |-> <<>>]

\* getFileFormat rejecting only a CSV template of fewer than two lines
getFileFormatAtLeastTwo(t, ext) ==
  CASE ext = "csv" ->
         LET templateParts == Split(t, NL)
         IN IF Len(templateParts) < 2
            THEN [NoFormat EXCEPT !.err = Err("InvalidCsvTemplate", "", <<>>)]
            ELSE [err |-> NoError, header |-> templateParts[1], footer |-> <<>>,
                  separator |-> <<NL>>, recordTemplate |-> templateParts[2]]
    [] ext = "json" ->
         [err |-> NoError, header |-> <<Lit("[")>>, footer |-> <<Lit("]")>>,
          separator |-> <<Lit(","), NL>>, recordTemplate |-> t]
    [] OTHER ->
         [err |-> NoError, header |-> <<>>, footer |-> <<>>,
          separator |-> <<NL>>, recordTemplate |-> t]

\* getFileFormat: [header, footer, separator, recordTemplate], or the error
\* thrown for a CSV template that is not two lines
getFileFormat(t, ext) ==
  CASE ext = "csv" ->
         LET templateParts == Split(t, NL)
         IN IF Len(templateParts) # 2
            THEN [NoFormat EXCEPT !.err = Err("InvalidCsvTemplate", "", <<>>)]
            ELSE [err |-> NoError, header |-> templateParts[1], footer |-> <<>>,
                  separator |-> <<NL>>, recordTemplate |-> templateParts[2]]
    [] ext = "json" ->
         [err |-> NoError, header |-> <<Lit("[")>>, footer |-> <<Lit("]")>>,
          separator |-> <<Lit(","), NL>>, recordTemplate |-> t]
    [] OTHER ->
         [err |-> NoError, header |-> <<>>, footer |-> <<>>,
          separator |-> <<NL>>, recordTemplate |-> t]

\* header ?? writeStream.write(header + '\n'): the writes it performs
HeaderWrites(header) ==
  IF IsNullish(header) THEN <<header \o <<NL>>>> ELSE <<>>

\* the record text with the separator appended after every record
RecordTextTrailing(rendered, separator, total, idx) == rendered \o separator

\* rendered + (totalRecords - 1 == i ? '' : separator)
RecordText(rendered, separator, total, idx) ==
  rendered \o (IF total - 1 = idx THEN <<>> ELSE separator)

----------------------------------------------------------------------------
(* The run of execute *)

\* the tag paths the templates of a run are drawn from: one that resolves,
\* one with an inherited function, one with an inherited module, and one
\* without a function segment
SampleTags ==
  {<<"m", ".", "f">>, <<"m", ".", "c">>, <<"p", ".", "f">>, <<"m">>}

Tokens == {NL, Text} \cup {Tag(p) : p \in SampleTags}

Templates == SeqsUpTo(Tokens, MaxTemplateLen)

Langs == {"en", "de", "xx", "toString"}

Extensions == {"default", "csv", "json"}

Init ==
  /\ lang \in Langs
  /\ template \in Templates
  /\ extension \in Extensions
  /\ totalRecords \in 0..MaxRecords
  /\ pc = "start"
  /\ faker = "undefined"
  /\ fmt = NoFormat
  /\ i = 0
  /\ opened = FALSE
  /\ sink = <<>>
  /\ ended = FALSE
  /\ completed = FALSE
  /\ error = NoError
  /\ generated = 0
  /\ resolved = 0

\* line 231: const faker = allFakers[isValidLocale(lang)]
CheckLocale ==
  /\ pc = "start"
  /\ IF isValidLocale(lang) = NoError
     THEN /\ faker' = GetProperty("allFakers", lang)
          /\ pc' = "format"
          /\ error' = error
     ELSE /\ error' = isValidLocale(lang)
          /\ pc' = "failed"
          /\ faker' = faker
  /\ UNCHANGED <<lang, template, extension, totalRecords, fmt, i, opened,
                 sink, ended, completed, generated, resolved>>

\* lines 233-237: read the template and split it by the format
FormatTemplate ==
  /\ pc = "format"
  /\ LET f == getFileFormat(template, extension)
     IN IF f.err = NoError
        THEN /\ fmt' = f
             /\ pc' = "open"
             /\ error' = error
        ELSE /\ error' = f.err
             /\ pc' = "failed"
             /\ fmt' = fmt
  /\ UNCHANGED <<lang, template, extension, totalRecords, faker, i, opened,
                 sink, ended, completed, generated, resolved>>

\* OpenSink resolving the tags once before the loop
OpenSinkValidating ==
  /\ pc = "open"
  /\ opened' = TRUE
  /\ IF isValidTemplate(faker, fmt.recordTemplate) = NoError
     THEN /\ sink' = sink \o HeaderWrites(fmt.header)
          /\ pc' = "loop"
          /\ error' = error
     ELSE /\ error' = isValidTemplate(faker, fmt.recordTemplate)
          /\ pc' = "failed"
          /\ sink' = sink
  /\ UNCHANGED <<lang, template, extension, totalRecords, faker, fmt, i,
                 ended, completed, generated, resolved>>

\* lines 238-239: create the write stream, then the header statement
OpenSink ==
  /\ pc = "open"
  /\ opened' = TRUE
  /\ sink' = sink \o HeaderWrites(fmt.header)
  /\ pc' = "loop"
  /\ UNCHANGED <<lang, template, extension, totalRecords, faker, fmt, i,
                 ended, completed, error, generated, resolved>>

\* ResolveFails recording the error and going on to the next record
ResolveFailsContinue ==
  /\ pc = "loop"
  /\ i < totalRecords
  /\ isValidTemplate(faker, fmt.recordTemplate) # NoError
  /\ error' = isValidTemplate(faker, fmt.recordTemplate)
  /\ resolved' = resolved + 1
  /\ i' = i + 1
  /\ UNCHANGED <<lang, template, extension, totalRecords, faker, fmt, pc,
                 opened, sink, ended, completed, generated>>

\* lines 240-244, a tag of the record template does not resolve: the
\* callback of tags.map throws
ResolveFails ==
  /\ pc = "loop"
  /\ i < totalRecords
  /\ isValidTemplate(faker, fmt.recordTemplate) # NoError
  /\ error' = isValidTemplate(faker, fmt.recordTemplate)
  /\ resolved' = resolved + 1
  /\ pc' = "failed"
  /\ UNCHANGED <<lang, template, extension, totalRecords, faker, fmt, i,
                 opened, sink, ended, completed, generated>>

\* lines 164-168, every tag resolves and a generator throws when invoked
GeneratorThrows ==
  /\ pc = "loop"
  /\ i < totalRecords
  /\ isValidTemplate(faker, fmt.recordTemplate) = NoError
  /\ ContextKeys(fmt.recordTemplate) # {}
  /\ error' = Err("GeneratorError", "", <<>>)
  /\ resolved' = resolved + 1
  /\ pc' = "failed"
  /\ UNCHANGED <<lang, template, extension, totalRecords, faker, fmt, i,
                 opened, sink, ended, completed, generated>>

\* lines 240-246, one iteration that succeeds: resolve, generate, render,
\* write the record and its separator
WriteRecord ==
  /\ pc = "loop"
  /\ i < totalRecords
  /\ isValidTemplate(faker, fmt.recordTemplate) = NoError
  /\ LET rendered == Render(fmt.recordTemplate,
                            ContextKeys(fmt.recordTemplate), i)
     IN sink' = Append(sink, RecordText(rendered, fmt.separator,
                                        totalRecords, i))
  /\ resolved' = resolved + 1
  /\ generated' = generated + 1
  /\ i' = i + 1
  /\ UNCHANGED <<lang, template, extension, totalRecords, faker, fmt, pc,
                 opened, ended, completed, error>>

\* line 247: writeStream.write(footer)
WriteFooter ==
  /\ pc = "loop"
  /\ ~(i < totalRecords)
  /\ sink' = Append(sink, fmt.footer)
  /\ pc' = "end"
  /\ UNCHANGED <<lang, template, extension, totalRecords, faker, fmt, i,
                 opened, ended, completed, error, generated, resolved>>

\* line 248: writeStream.end(callback)
EndSink ==
  /\ pc = "end"
  /\ ended' = TRUE
  /\ pc' = "ended"
  /\ UNCHANGED <<lang, template, extension, totalRecords, faker, fmt, i,
                 opened, sink, completed, error, generated, resolved>>

\* line 249: the end callback reports completion
Complete ==
  /\ pc = "ended"
  /\ completed' = TRUE
  /\ pc' = "done"
  /\ UNCHANGED <<lang, template, extension, totalRecords, faker, fmt, i,
                 opened, sink, ended, error, generated, resolved>>

Next ==
  \/ CheckLocale
  \/ FormatTemplate
  \/ OpenSink
  \/ ResolveFails
  \/ GeneratorThrows
  \/ WriteRecord
  \/ WriteFooter
  \/ EndSink
  \/ Complete

Spec == Init /\ [][Next]_vars

----------------------------------------------------------------------------
(* Tag resolution on its own: isValidTemplate applied to a template of     *)
(* tags, for a registered locale                                           *)

TagPaths == SeqsUpTo(Chars, MaxTagLen) \ {<<>>}

ResolveTemplates ==
  {<<Tag(p)>> : p \in TagPaths}
    \cup {t \in SeqsUpTo({Tag(p) : p \in SampleTags}, MaxTags) : Len(t) >= 2}

InitResolve ==
  /\ lang \in {e[1] : e \in Range(Entries("allFakers"))}
  /\ template \in ResolveTemplates
  /\ extension = "default"
  /\ totalRecords = 1
  /\ pc = "resolve"
  /\ faker = GetProperty("allFakers", lang)
  /\ fmt = NoFormat
  /\ i = 0
  /\ opened = FALSE
  /\ sink = <<>>
  /\ ended = FALSE
  /\ completed = FALSE
  /\ error = NoError
  /\ generated = 0
  /\ resolved = 0

\* one call of isValidTemplate(lang, faker, template), up to the reduce
Resolve ==
  /\ pc = "resolve"
  /\ error' = isValidTemplate(faker, template)
  /\ resolved' = resolved + 1
  /\ pc' = "resolved"
  /\ UNCHANGED <<lang, template, extension, totalRecords, faker, fmt, i,
                 opened, sink, ended, completed, generated>>

NextResolve == Resolve

SpecResolve == InitResolve /\ [][NextResolve]_vars

----------------------------------------------------------------------------
(* Properties *)

Output == Flatten(sink)

\* the locales the registry owns
RegisteredLocales == {e[1] : e \in Range(Entries("allFakers"))}

\* the writes made after the header statement
BodyWrites == SubSeq(sink, Len(HeaderWrites(fmt.header)) + 1, Len(sink))

ExpectedRecord(j) ==
  Render(fmt.recordTemplate, ContextKeys(fmt.recordTemplate), j)

\* records 0..k-1 joined by the separator
RECURSIVE JoinedRecords(_)
JoinedRecords(k) ==
  IF k = 0 THEN <<>>
  ELSE IF k = 1 THEN ExpectedRecord(0)
  ELSE JoinedRecords(k - 1) \o fmt.separator \o ExpectedRecord(k - 1)

NewlineCount(t) == Cardinality({j \in 1..Len(t) : t[j] = NL})

DotCount(p) == Cardinality({j \in 1..Len(p) : p[j] = "."})

\* the path of the single tag of a one-tag template
TheTag == template[1].v

\* a path with a leading, trailing or doubled dot has an empty segment
HasEmptySegment(p) ==
  \/ p[1] = "."
  \/ p[Len(p)] = "."
  \/ \E j \in 1..(Len(p) - 1) : p[j] = "." /\ p[j + 1] = "."

\* the templates of the same length that hold the same tokens
Reorderings(t) == {u \in [1..Len(t) -> Range(t)] : Range(u) = Range(t)}

\* C1: a run that completes has written the format's header first: with csv
\* the first output line is the template's first line, with json the output
\* begins with "["
C1_HeaderWrittenFirst ==
  pc = "done" =>
    /\ extension = "csv" => Split(Output, NL)[1] = Split(template, NL)[1]
    /\ extension = "json" => (Output # <<>> /\ Head(Output) = Lit("["))

\* C2: after the header position the sink holds record 0, separator,
\* record 1, ..., record R-1, footer: one write per record, no separator
\* after the last record, and the footer as the one last write
C2_RecordsThenFooter ==
  /\ pc = "loop" =>
       /\ Len(BodyWrites) = i
       /\ Flatten(BodyWrites) =
            JoinedRecords(i)
              \o (IF 0 < i /\ i < totalRecords THEN fmt.separator ELSE <<>>)
  /\ pc \in {"end", "ended", "done"} =>
       /\ Len(BodyWrites) = totalRecords + 1
       /\ BodyWrites[Len(BodyWrites)] = fmt.footer
       /\ Flatten(BodyWrites) = JoinedRecords(totalRecords) \o fmt.footer
       /\ generated = totalRecords

C2_Witness ==
  /\ pc = "done"
  /\ totalRecords = 2
  /\ extension = "json"
  /\ \E j \in 1..Len(Output) : Output[j].k = "val" /\ Output[j].n = 1

\* C3: a locale the registry does not own makes execute fail with
\* InvalidLocale before the sink is opened or written and before any tag is
\* resolved or record generated
C3_UnregisteredLocaleRejected ==
  (lang \notin RegisteredLocales /\ pc # "start") =>
    /\ error.kind = "InvalidLocale"
    /\ ~opened
    /\ sink = <<>>
    /\ generated = 0
    /\ resolved = 0

\* C4: a tag without a dot fails with MissingField("faker module")
C4_NoDotIsMissingModule ==
  (pc = "resolved" /\ Len(template) = 1 /\ DotCount(TheTag) = 0) =>
    error = Err("MissingField", "faker module", <<>>)

\* C5: a two-segment tag module.function fails with InvalidModule unless the
\* provider owns module with an object value, else with InvalidFunction
\* unless that module owns function with a callable value, else it resolves
C5_TwoSegmentOutcome ==
  (pc = "resolved" /\ Len(template) = 1 /\ DotCount(TheTag) = 1) =>
    LET d == CHOOSE j \in 1..Len(TheTag) : TheTag[j] = "."
        mod == SubSeq(TheTag, 1, d - 1)
        func == SubSeq(TheTag, d + 1, Len(TheTag))
        ownModules == {e \in Range(Entries(faker)) :
                         e[1] = mod /\ TypeOf(e[2]) = "object" /\ e[2] # "null"}
    IN IF ownModules = {}
       THEN error = Err("InvalidModule", "", mod)
       ELSE LET m == (CHOOSE e \in ownModules : TRUE)[2]
                ownFunctions == {e \in Range(Entries(m)) :
                                   e[1] = func /\ TypeOf(e[2]) = "function"}
            IN IF ownFunctions = {}
               THEN error = Err("InvalidFunction", "", func)
               ELSE error = NoError

C5_Witness ==
  /\ pc = "resolved"
  /\ template = <<Tag(<<"m", ".", "c">>)>>
  /\ error = Err("InvalidFunction", "", <<"c">>)

\* C6: a tag that is not exactly two non-empty segments is rejected
C6_OnlyTwoSegmentsResolve ==
  (pc = "resolved" /\ Len(template) = 1
     /\ (DotCount(TheTag) # 1 \/ HasEmptySegment(TheTag))) =>
    error # NoError

\* C7: with csv, a template that does not hold exactly one newline fails
\* with InvalidCsvTemplate before the sink is opened; one that does is cut
\* into header = first line and recordTemplate = second line, with an empty
\* footer and the newline as separator
C7_CsvTwoLines ==
  (extension = "csv" /\ pc \notin {"start", "format"}
     /\ error.kind # "InvalidLocale") =>
    /\ NewlineCount(template) # 1 =>
         /\ error.kind = "InvalidCsvTemplate"
         /\ pc = "failed"
         /\ ~opened
         /\ sink = <<>>
    /\ NewlineCount(template) = 1 =>
         /\ error.kind # "InvalidCsvTemplate"
         /\ template = fmt.header \o <<NL>> \o fmt.recordTemplate
         /\ NewlineCount(fmt.header) = 0
         /\ fmt.footer = <<>>
         /\ fmt.separator = <<NL>>

C7_Witness ==
  /\ extension = "csv"
  /\ error.kind = "InvalidCsvTemplate"
  /\ Len(template) = 3
  /\ template[2] = NL
  /\ template[3] = NL
  /\ ~opened

C9_ErrorHalts ==
  [][/\ error # NoError =>
          /\ sink' = sink
          /\ i' = i
          /\ generated' = generated
          /\ resolved' = resolved
          /\ ended' = ended
          /\ completed' = completed
          /\ error' = error
     /\ error' # NoError => (~ended' /\ ~completed' /\ pc' = "failed")]_vars

C9_Witness ==
  /\ error.kind = "GeneratorError"
  /\ i = 1
  /\ Len(sink) = 1
  /\ totalRecords = 2

\* C10: a tag resolution error is raised only while record 0 is processed
\* and before any record text is written; with totalRecords = 0 no tag is
\* resolved and the run does not fail on the tags but writes the footer and
\* closes the sink
C10_ResolutionErrorsAtRecordZero ==
  /\ error.kind \in ResolutionKinds =>
       /\ i = 0
       /\ generated = 0
       /\ sink = HeaderWrites(fmt.header)
  /\ totalRecords = 0 =>
       /\ resolved = 0
       /\ error.kind \notin ResolutionKinds
       /\ pc = "failed" => error.kind \in {"InvalidLocale", "InvalidCsvTemplate"}
       /\ pc = "done" => (BodyWrites = <<fmt.footer>> /\ ended /\ completed)

C10_Witness ==
  /\ totalRecords = 0
  /\ pc = "done"
  /\ lang \in RegisteredLocales
  /\ isValidTemplate(faker, fmt.recordTemplate).kind = "InvalidModule"
  /\ ended

====
